---- MODULE Spec2Model ----
(***************************************************************************)
(* Straight-line trajectories on translation surfaces (sage-flatsurf):     *)
(* get_linearity_coeff, SegmentInPolygon, StraightLineTrajectory and       *)
(* StraightLineTrajectoryTranslation of                                    *)
(* flatsurf/geometry/straight_line_trajectory.py, over an exact field.     *)
(***************************************************************************)
EXTENDS Integers, Sequences, FiniteSets

VARIABLES
    surf,        \* the surface the trajectories live on (a name in Surfaces)
    tv0,         \* the tangent vector both trajectories were constructed from
    _segments,   \* StraightLineTrajectory._segments (deque of SegmentInPolygon)
    _forward,    \* StraightLineTrajectory._forward  (<<>> is None, <<t>> is t)
    _backward,   \* StraightLineTrajectory._backward (<<>> is None, <<t>> is t)
    _points,     \* StraightLineTrajectoryTranslation._points (deque of triples)
    _iets,       \* StraightLineTrajectoryTranslation._iets (dictionary from polygons to transforms)
    steps,       \* argument of the last flow call
    raised,      \* TRUE iff the last call on a trajectory raised
    old,         \* the fields of both trajectories when the last flow call was made
    seg,         \* SegmentInPolygon under test (receiver of invert/next/previous)
    res,         \* outcome of the last call on seg
    op,          \* name of the last call on seg
    u,           \* first argument of get_linearity_coeff
    v,           \* second argument of get_linearity_coeff
    coeff,       \* outcome of get_linearity_coeff(u, v)
    coding_alphabet, \* argument of the last coding call (<<>> is None, <<f>> is the dictionary f)
    ans,         \* list returned by the last coding call (<<>> before a call, <<l>> is l)
    segments_out, \* outcome of the last call of StraightLineTrajectoryTranslation.segments
    flow_map_calls, \* the calls polygon.flow_map(direction) made by _get_iet, in order
    iet_out,     \* <<label, T>>: the last method called by a client got T from _get_iet(label)
    triple,      \* triple handed to the last call of _next or _previous
    image,       \* triple that call returned
    iet_op,      \* name of that call
    angles_pc,   \* position of ConeSurface.angles: "call", "outer", "inner", "return", "raise"
    edges,       \* local edges of ConeSurface.angles
    angles,      \* local angles of ConeSurface.angles
    corner,      \* locals p, e, pp, ee, angle of ConeSurface.angles
    summed,      \* the (polygon, edge) pairs whose angle was added to a sum, in order
    mapping,     \* the SimilaritySplitPolygonsMapping under test, or the error its constructor raised
    tangent,     \* tangent vector of the domain handed to push_vector_forward
    pushed,      \* outcome of push_vector_forward(tangent)
    pulled       \* outcome of pull_vector_back(pushed)

trajVars == <<surf, tv0, _segments, _forward, _backward, _points, _iets, steps, raised, old,
              coding_alphabet, ans, segments_out, flow_map_calls>>
segVars == <<seg, res, op>>
linVars == <<u, v, coeff>>
ietVars == <<iet_out, triple, image, iet_op>>
coneVars == <<angles_pc, edges, angles, corner, summed>>
mapVars == <<mapping, tangent, pushed, pulled>>

vars == <<trajVars, segVars, linVars, ietVars, coneVars, mapVars>>

----------------------------------------------------------------------------
(* Bounds of the model.                                                    *)

\* flow is only called while the trajectory has fewer than MaxLen segments
MaxLen == 6
\* flow is called with steps in -MaxSteps..MaxSteps
MaxSteps == 2
\* numerators of the vector components fed to get_linearity_coeff are in -MaxNum..MaxNum
MaxNum == 2
\* denominators of the vector components fed to get_linearity_coeff are in 1..MaxDen
MaxDen == 2

----------------------------------------------------------------------------
(* The exact number field: rationals <<n, d>> in lowest terms, d > 0.      *)
(* Scalars handed to get_linearity_coeff are rationals.  Coordinates of    *)
(* points are kept as integers, in units of 1/Unit of the side of a        *)
(* polygon, Unit chosen so that every point met by a trajectory is         *)
(* integral and every division below is exact.                             *)

Abs(n) == IF n < 0 THEN -n ELSE n

RECURSIVE Gcd(_, _)
Gcd(a, b) == IF b = 0 THEN a ELSE Gcd(b, a % b)

Norm(n, d) ==
    LET g == Gcd(Abs(n), Abs(d))
        s == IF d < 0 THEN -1 ELSE 1
    IN  <<(s * n) \div g, (s * d) \div g>>

Q(n) == <<n, 1>>
QZero == Q(0)
QMul(p, q) == Norm(p[1] * q[1], p[2] * q[2])
QDiv(p, q) == Norm(p[1] * q[2], p[2] * q[1])
QLt(p, q) == p[1] * q[2] < q[1] * p[2]
QIsZero(p) == p[1] = 0

----------------------------------------------------------------------------
(* get_linearity_coeff(u, v): a with v = a*u, or a raised ValueError.      *)

Return(a) == [kind |-> "return", val |-> a, msg |-> ""]
Raise(m) == [kind |-> "raise", val |-> QZero, msg |-> m]
Pending == [kind |-> "pending", val |-> QZero, msg |-> ""]

\* get_linearity_coeff without the test v[1] == a*u[1]
get_linearity_coeff_Unchecked(uu, vv) ==
    IF ~QIsZero(uu[1])
    THEN Return(QDiv(vv[1], uu[1]))
    ELSE IF ~QIsZero(vv[1])
    THEN Raise("non colinear")
    ELSE IF ~QIsZero(uu[2])
    THEN Return(QDiv(vv[2], uu[2]))
    ELSE Raise("zero vector")

\* get_linearity_coeff without the branch elif v[0]
get_linearity_coeff_FirstZero(uu, vv) ==
    IF ~QIsZero(uu[1])
    THEN LET a == QDiv(vv[1], uu[1])
         IN  IF vv[2] # QMul(a, uu[2])
             THEN Raise("non colinear")
             ELSE Return(a)
    ELSE IF ~QIsZero(uu[2])
    THEN Return(QDiv(vv[2], uu[2]))
    ELSE Raise("zero vector")

get_linearity_coeff(uu, vv) ==
    IF ~QIsZero(uu[1])
    THEN LET a == QDiv(vv[1], uu[1])
         IN  IF vv[2] # QMul(a, uu[2])
             THEN Raise("non colinear")
             ELSE Return(a)
    ELSE IF ~QIsZero(vv[1])
    THEN Raise("non colinear")
    ELSE IF ~QIsZero(uu[2])
    THEN Return(QDiv(vv[2], uu[2]))
    ELSE Raise("zero vector")


----------------------------------------------------------------------------
(* 2-dimensional vectors with integer coordinates.                         *)

VAdd(a, b) == <<a[1] + b[1], a[2] + b[2]>>
VSub(a, b) == <<a[1] - b[1], a[2] - b[2]>>
VNeg(a) == <<-a[1], -a[2]>>
wedge_product(a, b) == a[1] * b[2] - a[2] * b[1]
dot_product(a, b) == a[1] * b[1] + a[2] * b[2]

\* a vector with integer coordinates as a vector over the field
QVec(a) == <<Q(a[1]), Q(a[2])>>

----------------------------------------------------------------------------
(* Polygons and surfaces (the surface collaborator).  A polygon is the     *)
(* sequence of its vertices in counterclockwise order; edges and vertices  *)
(* are numbered from 0 as in the source.                                   *)

\* coordinates of the base points offered to the constructors are the
\* multiples of 1/Grid of the side of a polygon
Grid == 2

\* length units per side: the crossings of a line of direction (a, b),
\* |a|, |b| <= 2, with horizontal, vertical and diagonal edges have
\* coordinates in multiples of 1/(Grid * 2 * 3) of the side
Unit == Grid * 2 * 3

num_edges(P) == Len(P)
vertex(P, i) == P[(i % Len(P)) + 1]
edge(P, i) == VSub(vertex(P, i + 1), vertex(P, i))
Edges(P) == 0 .. (Len(P) - 1)

Square == <<<<0, 0>>, <<Unit, 0>>, <<Unit, Unit>>, <<0, Unit>>>>
LowerTriangle == <<<<0, 0>>, <<Unit, 0>>, <<Unit, Unit>>>>
UpperTriangle == <<<<0, 0>>, <<Unit, Unit>>, <<0, Unit>>>>
\* a hexagon with parallel opposite sides
Hexagon ==
    <<<<0, 0>>, <<Unit, 0>>, <<2 * Unit, Unit>>, <<2 * Unit, 2 * Unit>>,
      <<Unit, 2 * Unit>>, <<0, Unit>>>>

\* the surfaces trajectories are flowed on
Surfaces == {"torus", "origami", "triangles"}
\* the finite surfaces: also a torus made of two squares side by side and a
\* torus made of a hexagon
FiniteSurfaces == Surfaces \cup {"two_squares", "hexagon"}
\* an infinite surface
InfiniteSurfaces == {"infinite_staircase"}

is_finite(S) == S \in FiniteSurfaces

\* the labels of the polygons of a surface
Labels(S) ==
    IF S = "torus" THEN {0}
    ELSE IF S = "origami" THEN {1, 2, 3}
    ELSE IF S = "hexagon" THEN {0}
    ELSE {0, 1}

polygon(S, p) ==
    IF S = "triangles"
    THEN (IF p = 0 THEN LowerTriangle ELSE UpperTriangle)
    ELSE IF S = "hexagon" THEN Hexagon
    ELSE Square

\* origami of three squares: right neighbour r = (1,2), upper neighbour up = (1,3)
OrigamiRight(p) == IF p = 1 THEN 2 ELSE IF p = 2 THEN 1 ELSE 3
OrigamiUp(p) == IF p = 1 THEN 3 ELSE IF p = 3 THEN 1 ELSE 2

opposite_edge(S, p, e) ==
    IF S = "torus" THEN <<0, (e + 2) % 4>>
    ELSE IF S = "origami"
    THEN (IF e = 0 \/ e = 2 THEN <<OrigamiUp(p), (e + 2) % 4>>
                            ELSE <<OrigamiRight(p), (e + 2) % 4>>)
    ELSE IF S = "two_squares"
    THEN (IF e = 0 \/ e = 2 THEN <<p, (e + 2) % 4>> ELSE <<1 - p, (e + 2) % 4>>)
    ELSE IF S = "hexagon" THEN <<0, (e + 3) % 6>>
    ELSE (IF p = 0 THEN <<1, (e + 1) % 3>> ELSE <<0, (e + 2) % 3>>)

----------------------------------------------------------------------------
(* Tangent vectors (the tangent-bundle collaborator): a polygon label, a   *)
(* base point in the polygon and a vector.                                 *)

TangentVector(p, pt, vec) == [label |-> p, point |-> pt, vector |-> vec]

polygon_label(t) == t.label

\* the vertices of P the point is at, and the edges of P it lies on
VerticesAt(P, pt) == {i \in Edges(P) : vertex(P, i) = pt}
EdgesThrough(P, pt) ==
    {i \in Edges(P) : wedge_product(edge(P, i), VSub(pt, vertex(P, i))) = 0}

position_type(P, pt) ==
    IF VerticesAt(P, pt) # {} THEN "VERTEX"
    ELSE IF EdgesThrough(P, pt) # {} THEN "EDGE_INTERIOR"
    ELSE "INTERIOR"

get_vertex(P, pt) == CHOOSE i \in VerticesAt(P, pt) : TRUE
get_edge(P, pt) == CHOOSE i \in EdgesThrough(P, pt) : TRUE

is_based_at_singularity(S, t) == VerticesAt(polygon(S, t.label), t.point) # {}

contains_point(P, pt) ==
    \A i \in Edges(P) : wedge_product(edge(P, i), VSub(pt, vertex(P, i))) >= 0

\* the tangent vector at the same place seen from the polygon glued to edge e
TransportAcross(S, p, e, o, pt, vec) ==
    TangentVector(o[1],
                  VAdd(pt, VSub(vertex(polygon(S, o[1]), o[2] + 1),
                                vertex(polygon(S, p), e))),
                  vec)

\* surface.tangent_vector(label, point, vector): a vector based in the
\* interior of an edge and pointing out of the polygon is represented in the
\* polygon glued to that edge
tangent_vector(S, p, pt, vec) ==
    IF VerticesAt(polygon(S, p), pt) = {}
       /\ \E e \in Edges(polygon(S, p)) :
            /\ wedge_product(edge(polygon(S, p), e), VSub(pt, vertex(polygon(S, p), e))) = 0
            /\ wedge_product(edge(polygon(S, p), e), vec) < 0
    THEN TransportAcross(S, p, get_edge(polygon(S, p), pt),
                         opposite_edge(S, p, get_edge(polygon(S, p), pt)), pt, vec)
    ELSE TangentVector(p, pt, vec)

\* the edges of P through which the flow in direction vec leaves P
TopEdges(P, vec) == {i \in Edges(P) : wedge_product(edge(P, i), vec) < 0}
\* the edges of P through which the flow in direction vec enters P
BotEdges(P, vec) == {i \in Edges(P) : wedge_product(edge(P, i), vec) > 0}

\* the line pt + t*vec meets the line carrying edge i at t = HitNum / HitDen
HitNum(P, pt, i) == wedge_product(VSub(vertex(P, i), pt), edge(P, i))
HitDen(P, vec, i) == wedge_product(vec, edge(P, i))

\* the point pt + (num/den)*vec
PointAt(pt, vec, num, den) ==
    <<pt[1] + (vec[1] * num) \div den, pt[2] + (vec[2] * num) \div den>>

\* polygon.flow_to_exit: the ray from pt leaves the polygon through the
\* first of the lines carrying the edges it can leave through
ExitEdge(P, pt, vec) ==
    CHOOSE i \in TopEdges(P, vec) :
        \A j \in TopEdges(P, vec) :
            HitNum(P, pt, i) * HitDen(P, vec, j) <= HitNum(P, pt, j) * HitDen(P, vec, i)

ExitPoint(P, pt, vec, i) == PointAt(pt, vec, HitNum(P, pt, i), HitDen(P, vec, i))

flow_to_exit(P, pt, vec) == ExitPoint(P, pt, vec, ExitEdge(P, pt, vec))

\* flow to the boundary of the polygon; the result points backward
forward_to_polygon_boundary(S, t) ==
    tangent_vector(S, t.label,
                   flow_to_exit(polygon(S, t.label), t.point, t.vector),
                   VNeg(t.vector))

\* the tangent bundle's invert raises at a singularity; callers test first
invert(S, t) == tangent_vector(S, t.label, t.point, VNeg(t.vector))

is_same_direction(a, b) == wedge_product(a, b) = 0 /\ dot_product(a, b) > 0

differs_by_scaling(t1, t2) ==
    /\ t1.label = t2.label
    /\ t1.point = t2.point
    /\ is_same_direction(t1.vector, t2.vector)

----------------------------------------------------------------------------
(* SegmentInPolygon: a maximal segment in a polygon, a pair of tangent     *)
(* vectors based on the boundary of the polygon.                           *)

\* SegmentInPolygon(start, end)
SegmentFromPair(st, en) == [start |-> st, end |-> en]

\* SegmentInPolygon(start) with end None
SegmentEndingAt(S, en) == SegmentFromPair(forward_to_polygon_boundary(S, en), en)

SegmentInPolygon(S, t) == SegmentEndingAt(S, forward_to_polygon_boundary(S, t))

start_is_singular(S, sg) == is_based_at_singularity(S, sg.start)
end_is_singular(S, sg) == is_based_at_singularity(S, sg.end)

NoTangentVector == TangentVector(-1, <<0, 0>>, <<0, 0>>)
NoSegment == SegmentFromPair(NoTangentVector, NoTangentVector)

ReturnSegment(sg) == [kind |-> "return", val |-> sg, msg |-> ""]
RaiseSegment(m) == [kind |-> "raise", val |-> NoSegment, msg |-> m]
NoCall == [kind |-> "none", val |-> NoSegment, msg |-> ""]

SingularMsg == "Cannot continue from singularity"
InvertMsg == "Can't invert tangent vector based at a singularity"

\* invert that keeps the order of the pair
SegmentInPolygon_invert_Unswapped(sg) == SegmentFromPair(sg.start, sg.end)

SegmentInPolygon_invert(sg) == SegmentFromPair(sg.end, sg.start)

\* next with the guard on the start of the segment
SegmentInPolygon_next_GuardsStart(S, sg) ==
    IF start_is_singular(S, sg)
    THEN RaiseSegment(SingularMsg)
    ELSE ReturnSegment(SegmentInPolygon(S, invert(S, sg.end)))

SegmentInPolygon_next(S, sg) ==
    IF end_is_singular(S, sg)
    THEN RaiseSegment(SingularMsg)
    ELSE ReturnSegment(SegmentInPolygon(S, invert(S, sg.end)))

\* the guard of previous tests the end of the segment, as next does; with a
\* regular end and a singular start the tangent bundle's invert raises
SegmentInPolygon_previous(S, sg) ==
    IF end_is_singular(S, sg)
    THEN RaiseSegment(SingularMsg)
    ELSE IF is_based_at_singularity(S, sg.start)
    THEN RaiseSegment(InvertMsg)
    ELSE ReturnSegment(SegmentInPolygon_invert(SegmentInPolygon(S, invert(S, sg.start))))

----------------------------------------------------------------------------
(* StraightLineTrajectory: a deque of segments and the two cached          *)
(* continuations.  A trajectory value T is the record of the object's      *)
(* fields together with the remaining step count of a running flow.        *)

Last(sq) == sq[Len(sq)]

initial_tangent_vector(T) == T.segments[1].start
terminal_tangent_vector(T) == Last(T.segments).end

\* None at a singularity, else the inverted vector
Continuation(S, t) == IF is_based_at_singularity(S, t) THEN <<>> ELSE <<invert(S, t)>>

_setup_forward(S, T) ==
    [T EXCEPT !.forward = Continuation(S, terminal_tangent_vector(T))]

_setup_backward(S, T) ==
    [T EXCEPT !.backward = Continuation(S, initial_tangent_vector(T))]

StraightLineTrajectory(S, t) ==
    _setup_backward(S, _setup_forward(S,
        [segments |-> <<SegmentInPolygon(S, t)>>,
         forward |-> <<>>, backward |-> <<>>, steps |-> 0]))

combinatorial_length(T) == Len(T.segments)
is_forward_separatrix(T) == T.forward = <<>>
is_backward_separatrix(T) == T.backward = <<>>
is_saddle_connection(T) == (T.forward = <<>>) /\ (T.backward = <<>>)

is_closed(T) ==
    (~is_forward_separatrix(T))
    /\ differs_by_scaling(T.forward[1], initial_tangent_vector(T))

RECURSIVE flow_append_PastClosure(_, _)
\* the loop for steps > 0 without the test of is_closed
flow_append_PastClosure(S, T) ==
    IF T.steps > 0 /\ (~is_forward_separatrix(T))
    THEN flow_append_PastClosure(S,
            [_setup_forward(S,
                [T EXCEPT !.segments = Append(@, SegmentInPolygon(S, T.forward[1]))])
             EXCEPT !.steps = @ - 1])
    ELSE T

RECURSIVE flow_append_StaleRail(_, _)
\* the loop for steps > 0 without the call of _setup_forward
flow_append_StaleRail(S, T) ==
    IF T.steps > 0 /\ (~is_forward_separatrix(T)) /\ (~is_closed(T))
    THEN flow_append_StaleRail(S,
            [T EXCEPT !.segments = Append(@, SegmentInPolygon(S, T.forward[1])),
                      !.steps = @ - 1])
    ELSE T

RECURSIVE flow_append(_, _)
flow_append(S, T) ==
    IF T.steps > 0 /\ (~is_forward_separatrix(T)) /\ (~is_closed(T))
    THEN flow_append(S,
            [_setup_forward(S,
                [T EXCEPT !.segments = Append(@, SegmentInPolygon(S, T.forward[1]))])
             EXCEPT !.steps = @ - 1])
    ELSE T

RECURSIVE flow_appendleft_Cancels(_, _)
\* the loop for steps < 0 taking back the segments at the right end
flow_appendleft_Cancels(S, T) ==
    IF T.steps < 0 /\ Len(T.segments) > 1
    THEN flow_appendleft_Cancels(S,
            [_setup_forward(S,
                [T EXCEPT !.segments = SubSeq(@, 1, Len(@) - 1)])
             EXCEPT !.steps = @ + 1])
    ELSE T

RECURSIVE flow_appendleft_Uninverted(_, _)
\* the loop for steps < 0 prepending the segment without inverting it
flow_appendleft_Uninverted(S, T) ==
    IF T.steps < 0 /\ (~is_backward_separatrix(T)) /\ (~is_closed(T))
    THEN flow_appendleft_Uninverted(S,
            [_setup_backward(S,
                [T EXCEPT !.segments = <<SegmentInPolygon(S, T.backward[1])>> \o @])
             EXCEPT !.steps = @ + 1])
    ELSE T

RECURSIVE flow_appendleft(_, _)
flow_appendleft(S, T) ==
    IF T.steps < 0 /\ (~is_backward_separatrix(T)) /\ (~is_closed(T))
    THEN flow_appendleft(S,
            [_setup_backward(S,
                [T EXCEPT !.segments =
                    <<SegmentInPolygon_invert(SegmentInPolygon(S, T.backward[1]))>> \o @])
             EXCEPT !.steps = @ + 1])
    ELSE T

flow(S, T, n) == flow_appendleft(S, flow_append(S, [T EXCEPT !.steps = n]))



----------------------------------------------------------------------------
(* AbstractStraightLineTrajectory.coding(alphabet): alphabet is <<>> for   *)
(* None and <<f>> for the dictionary f.                                    *)

\* lab that keeps a pair absent from the dictionary
Letter_KeepsAbsent(alphabet, p, e) ==
    IF alphabet = <<>> THEN <<<<p, e>>>>
    ELSE IF <<p, e>> \in DOMAIN alphabet[1] THEN <<alphabet[1][<<p, e>>]>>
    ELSE <<<<p, e>>>>

\* lab, appended to ans unless it is None
Letter(alphabet, p, e) ==
    IF alphabet = <<>> THEN <<<<p, e>>>>
    ELSE IF <<p, e>> \in DOMAIN alphabet[1] THEN <<alphabet[1][<<p, e>>]>>
    ELSE <<>>

\* the crossing at the start of the first segment
CodingOfStart(S, T, alphabet) ==
    IF position_type(polygon(S, T.segments[1].start.label), T.segments[1].start.point)
           = "EDGE_INTERIOR"
    THEN Letter(alphabet, T.segments[1].start.label,
                get_edge(polygon(S, T.segments[1].start.label), T.segments[1].start.point))
    ELSE <<>>

\* the crossings at the ends of the segments i..len-1 (all but the last)
RECURSIVE CodingOfEnds(_, _, _, _)
CodingOfEnds(S, T, alphabet, i) ==
    IF i >= Len(T.segments)
    THEN <<>>
    ELSE Letter(alphabet, T.segments[i].start.label,
                get_edge(polygon(S, T.segments[i].end.label), T.segments[i].end.point))
         \o CodingOfEnds(S, T, alphabet, i + 1)

\* the crossing at the end of the last segment, without the test
\* end.invert() != start
CodingOfLast_CountsClosing(S, T, alphabet) ==
    IF position_type(polygon(S, Last(T.segments).end.label), Last(T.segments).end.point)
           = "EDGE_INTERIOR"
    THEN Letter(alphabet, Last(T.segments).start.label,
                get_edge(polygon(S, Last(T.segments).end.label), Last(T.segments).end.point))
    ELSE <<>>

\* the crossing at the end of the last segment
CodingOfLast(S, T, alphabet) ==
    IF position_type(polygon(S, Last(T.segments).end.label), Last(T.segments).end.point)
           = "EDGE_INTERIOR"
       /\ invert(S, Last(T.segments).end) # T.segments[1].start
    THEN Letter(alphabet, Last(T.segments).start.label,
                get_edge(polygon(S, Last(T.segments).end.label), Last(T.segments).end.point))
    ELSE <<>>

coding(S, T, alphabet) ==
    CodingOfStart(S, T, alphabet) \o CodingOfEnds(S, T, alphabet, 1)
        \o CodingOfLast(S, T, alphabet)

----------------------------------------------------------------------------
(* polygon.flow_map(direction): the interval exchange transformation of    *)
(* the flow across a polygon.  The bottom interval is cut into the edges   *)
(* through which the flow enters, the top interval into the edges through  *)
(* which it leaves; lengths and offsets are measured by the wedge product  *)
(* with the direction, every interval closed on the left and open on the   *)
(* right.                                                                  *)

TransverseCoordinates(P, d) == {wedge_product(vertex(P, i), d) : i \in Edges(P)}

MinTransverse(P, d) ==
    CHOOSE m \in TransverseCoordinates(P, d) :
        \A w \in TransverseCoordinates(P, d) : m <= w

length_bot(P, d, i) == wedge_product(edge(P, i), d)
length_top(P, d, i) == -wedge_product(edge(P, i), d)
offset_bot(P, d, i) == wedge_product(vertex(P, i), d) - MinTransverse(P, d)
offset_top(P, d, i) == wedge_product(vertex(P, i + 1), d) - MinTransverse(P, d)

\* the top edges, resp. bottom edges, whose interval holds the position y
TopEdgesAt(P, d, y) ==
    {j \in TopEdges(P, d) :
        offset_top(P, d, j) <= y /\ y < offset_top(P, d, j) + length_top(P, d, j)}
BotEdgesAt(P, d, y) ==
    {j \in BotEdges(P, d) :
        offset_bot(P, d, j) <= y /\ y < offset_bot(P, d, j) + length_bot(P, d, j)}

\* the image of no point: the transformation raises
NoImage == <<-1, 0>>

forward_image(P, d, e, x) ==
    IF e \notin BotEdges(P, d) \/ TopEdgesAt(P, d, offset_bot(P, d, e) + x) = {}
    THEN NoImage
    ELSE <<CHOOSE j \in TopEdgesAt(P, d, offset_bot(P, d, e) + x) : TRUE,
           offset_bot(P, d, e) + x
             - offset_top(P, d, CHOOSE j \in TopEdgesAt(P, d, offset_bot(P, d, e) + x) : TRUE)>>

backward_image(P, d, e, x) ==
    IF e \notin TopEdges(P, d) \/ BotEdgesAt(P, d, offset_top(P, d, e) + x) = {}
    THEN NoImage
    ELSE <<CHOOSE j \in BotEdgesAt(P, d, offset_top(P, d, e) + x) : TRUE,
           offset_top(P, d, e) + x
             - offset_bot(P, d, CHOOSE j \in BotEdgesAt(P, d, offset_top(P, d, e) + x) : TRUE)>>

----------------------------------------------------------------------------
(* StraightLineTrajectoryTranslation: a deque of triples <<p, e, x>>.  A   *)
(* trajectory value L is the record of the object's fields: the triples,   *)
(* the direction, the dictionary _iets from polygons to their transforms,  *)
(* the calls of flow_map made so far, and whether a call on it raised.     *)

\* polygon.flow_map(direction): the transform is determined by the polygon
\* and the direction; forward_image and backward_image above compute it
flow_map(P, d) == [polygon |-> P, direction |-> d]

\* the dictionary before the first call of _get_iet: the attribute is absent
NoIets == <<>>

\* self._iets[polygon] = polygon.flow_map(self._vector)
IetsWith(iets, P, d) ==
    [K \in (DOMAIN iets) \cup {P} |-> IF K = P THEN flow_map(P, d) ELSE iets[K]]

\* _get_iet whose KeyError branch builds a new dictionary, as the
\* AttributeError branch does
IetsAfter_Rebuilt(iets, P, d) ==
    IF DOMAIN iets = {} THEN IetsWith(NoIets, P, d)
    ELSE IF P \notin DOMAIN iets THEN IetsWith(NoIets, P, d)
    ELSE iets

\* the dictionary after _get_iet looked up the polygon P: AttributeError
\* builds the dictionary, KeyError adds the entry, a hit changes nothing
IetsAfter(iets, P, d) ==
    IF DOMAIN iets = {} THEN IetsWith(NoIets, P, d)
    ELSE IF P \notin DOMAIN iets THEN IetsWith(iets, P, d)
    ELSE iets

\* the calls of flow_map after _get_iet looked up the polygon P
CallsAfter(iets, calls, P, d) ==
    IF P \notin DOMAIN iets THEN Append(calls, <<P, d>>) ELSE calls

\* the trajectory after a call of _get_iet(label)
_get_iet(S, L, label) ==
    [L EXCEPT !.iets = IetsAfter(@, polygon(S, label), L.vector),
              !.calls = CallsAfter(L.iets, @, polygon(S, label), L.vector)]

\* the transform that call of _get_iet(label) returns: self._iets[polygon]
ReturnedIet(S, L, label) == _get_iet(S, L, label).iets[polygon(S, label)]

\* p, e = self._s.opposite_edge(p, e) applied to the image im of the transformation
Glued(S, p, im) ==
    IF im[1] = -1
    THEN <<p, -1, 0>>
    ELSE <<opposite_edge(S, p, im[1])[1], opposite_edge(S, p, im[1])[2], im[2]>>

\* _next without the gluing
_next_Unglued(S, d, t) ==
    <<t[1], forward_image(polygon(S, t[1]), d, t[2], t[3])[1],
            forward_image(polygon(S, t[1]), d, t[2], t[3])[2]>>

_next(S, d, t) == Glued(S, t[1], forward_image(polygon(S, t[1]), d, t[2], t[3]))

\* the triple of label p and the image im of the transformation
Triple(p, im) == <<p, im[1], im[2]>>

\* e, x = self._get_iet(p).backward_image(e, x) at the glued edge o
PreimageAt(S, d, o, x) == Triple(o[1], backward_image(polygon(S, o[1]), d, o[2], x))

\* _previous without the gluing
_previous_Unglued(S, d, t) == PreimageAt(S, d, <<t[1], t[2]>>, t[3])

\* _previous that applies the gluing after the backward image
_previous_GluedAfter(S, d, t) ==
    Glued(S, t[1], backward_image(polygon(S, t[1]), d, t[2], t[3]))

_previous(S, d, t) == PreimageAt(S, d, opposite_edge(S, t[1], t[2]), t[3])

RaisedTranslation(d) ==
    [points |-> <<>>, vector |-> d, iets |-> NoIets, calls |-> <<>>, raised |-> TRUE]

\* i of __init__: the edge or the vertex of the start, -1 for RuntimeError
StartIndex(P, pt) ==
    IF position_type(P, pt) = "EDGE_INTERIOR" THEN get_edge(P, pt)
    ELSE IF position_type(P, pt) = "VERTEX" THEN get_vertex(P, pt)
    ELSE -1

\* x *= T.length_bot(i); in the model's units the offset is an integer
ScaledOffset(c, l) == QMul(c.val, Q(l))[1] \div QMul(c.val, Q(l))[2]

TranslationWith(S, d, p, i, c, l) ==
    IF c.kind # "return"
    THEN RaisedTranslation(d)
    ELSE [points |-> <<<<p, i, ScaledOffset(c, l)>>>>,
          vector |-> d,
          iets |-> IetsAfter(NoIets, polygon(S, p), d),
          calls |-> CallsAfter(NoIets, <<>>, polygon(S, p), d),
          raised |-> FALSE]

TranslationAt(S, d, p, P, pt, i) ==
    IF i = -1
    THEN RaisedTranslation(d)
    ELSE TranslationWith(S, d, p, i,
            get_linearity_coeff(QVec(VSub(vertex(P, i + 1), vertex(P, i))),
                                QVec(VSub(pt, vertex(P, i)))),
            length_bot(P, d, i))

TranslationFrom(S, d, st) ==
    TranslationAt(S, d, st.label, polygon(S, st.label), st.point,
                  StartIndex(polygon(S, st.label), st.point))

StraightLineTrajectoryTranslation(S, t) ==
    TranslationFrom(S, t.vector, SegmentInPolygon(S, t).start)

Translation_combinatorial_length(L) == Len(L.points)

Translation_is_closed(S, L) == L.points[1] = _next(S, L.vector, Last(L.points))

\* is_forward_separatrix with the test of x1 inverted
Translation_is_forward_separatrix_Inverted(S, L) ==
    _next(S, L.vector, Last(L.points))[3] # 0

Translation_is_forward_separatrix(S, L) == _next(S, L.vector, Last(L.points))[3] = 0

\* is_backward_separatrix testing the last stored triple
Translation_is_backward_separatrix_OfLast(L) == Last(L.points)[3] = 0

Translation_is_backward_separatrix(L) == L.points[1][3] = 0

Translation_is_saddle_connection(S, L) ==
    Translation_is_forward_separatrix(S, L) /\ Translation_is_backward_separatrix(L)

RECURSIVE Translation_flow_append(_, _, _, _)
RECURSIVE Translation_flow_appendleft(_, _, _, _)

\* the body of the loop for steps > 0 without the test t[2].is_zero()
AppendUnlessDone_PastSingularity(S, L, t1, k) ==
    IF t1[2] = -1
    THEN [L EXCEPT !.raised = TRUE]
    ELSE IF t1 = L.points[1]
    THEN L
    ELSE Translation_flow_append(S, [L EXCEPT !.points = Append(@, t1)], t1, k - 1)

\* the body of the loop for steps > 0 without the test t == self._points[0]
AppendUnlessDone_PastClosure(S, L, t1, k) ==
    IF t1[2] = -1
    THEN [L EXCEPT !.raised = TRUE]
    ELSE IF t1[3] = 0
    THEN L
    ELSE Translation_flow_append(S, [L EXCEPT !.points = Append(@, t1)], t1, k - 1)

\* the body of the loop for steps > 0 once t = self._next(*t) gave t1
AppendUnlessDone(S, L, t1, k) ==
    IF t1[2] = -1
    THEN [L EXCEPT !.raised = TRUE]
    ELSE IF t1 = L.points[1] \/ t1[3] = 0
    THEN L
    ELSE Translation_flow_append(S, [L EXCEPT !.points = Append(@, t1)], t1, k - 1)

\* the loop of flow for steps > 0, k iterations left, t the current triple
Translation_flow_append(S, L, t, k) ==
    IF k = 0
    THEN L
    ELSE AppendUnlessDone(S, _get_iet(S, L, t[1]), _next(S, L.vector, t), k)

\* the body of the loop for steps < 0 with append in place of appendleft
AppendleftUnlessDone_AtTail(S, L, t1, k) ==
    IF t1[2] = -1
    THEN [L EXCEPT !.raised = TRUE]
    ELSE IF t1 = Last(L.points)
    THEN L
    ELSE Translation_flow_appendleft(S, [L EXCEPT !.points = Append(@, t1)], t1, k - 1)

\* the body of the loop for steps < 0 once t = self._previous(*t) gave t1
AppendleftUnlessDone(S, L, t1, k) ==
    IF t1[2] = -1
    THEN [L EXCEPT !.raised = TRUE]
    ELSE IF t1 = Last(L.points)
    THEN L
    ELSE Translation_flow_appendleft(S, [L EXCEPT !.points = <<t1>> \o @], t1, k - 1)

\* the loop of flow for steps < 0 without the test t[2].is_zero()
Translation_flow_appendleft_PastSingularity(S, L, t, k) ==
    IF k = 0
    THEN L
    ELSE AppendleftUnlessDone(S, _get_iet(S, L, opposite_edge(S, t[1], t[2])[1]),
                              _previous(S, L.vector, t), k)

\* the loop of flow for steps < 0, k iterations left, t the current triple
Translation_flow_appendleft(S, L, t, k) ==
    IF k = 0 \/ t[3] = 0
    THEN L
    ELSE AppendleftUnlessDone(S, _get_iet(S, L, opposite_edge(S, t[1], t[2])[1]),
                              _previous(S, L.vector, t), k)

\* flow whose loops run once more than asked
Translation_flow_OneMore(S, L, n) ==
    IF n > 0 THEN Translation_flow_append(S, L, Last(L.points), n + 1)
    ELSE IF n < 0 THEN Translation_flow_appendleft(S, L, L.points[1], 1 - n)
    ELSE L

Translation_flow(S, L, n) ==
    IF n > 0 THEN Translation_flow_append(S, L, Last(L.points), n)
    ELSE IF n < 0 THEN Translation_flow_appendleft(S, L, L.points[1], -n)
    ELSE L

\* poly.vertex(e) + poly.edge(e) * num/den
PointOnEdge(P, e, num, den) ==
    VAdd(vertex(P, e), <<(edge(P, e)[1] * num) \div den, (edge(P, e)[2] * num) \div den>>)

ReturnList(l) == [kind |-> "return", val |-> l, msg |-> ""]
RaiseList(m) == [kind |-> "raise", val |-> <<>>, msg |-> m]
NoList == [kind |-> "none", val |-> <<>>, msg |-> ""]

\* SegmentInPolygon(v0, v1) of segment(i), im the forward image (e1, x1) of (e0, x0)
SegmentTo(S, d, lab, P, e0, x0, im) ==
    SegmentFromPair(
        tangent_vector(S, lab, PointOnEdge(P, e0, x0, length_bot(P, d, e0)), d),
        tangent_vector(S, lab,
            PointOnEdge(P, im[1], length_top(P, d, im[1]) - im[2], length_top(P, d, im[1])),
            VNeg(d)))

\* segment(i), i counted from 0; NoSegment when forward_image fails
Translation_segment(S, L, i) ==
    IF forward_image(polygon(S, L.points[i + 1][1]), L.vector,
                     L.points[i + 1][2], L.points[i + 1][3]) = NoImage
    THEN NoSegment
    ELSE SegmentTo(S, L.vector, L.points[i + 1][1], polygon(S, L.points[i + 1][1]),
                   L.points[i + 1][2], L.points[i + 1][3],
                   forward_image(polygon(S, L.points[i + 1][1]), L.vector,
                                 L.points[i + 1][2], L.points[i + 1][3]))

\* [self.segment(i) for i in it]: iterating an int raises TypeError, a
\* sequence it of indices gives the list of their segments
SegmentsOver(S, L, it) ==
    IF it \in Int
    THEN RaiseList("'int' object is not iterable")
    ELSE ReturnList([k \in 1 .. Len(it) |-> Translation_segment(S, L, it[k])])

\* segments(): the comprehension iterates over self.combinatorial_length()
Translation_segments(S, L) == SegmentsOver(S, L, Translation_combinatorial_length(L))

----------------------------------------------------------------------------
(* The trajectory specification: both trajectory classes are constructed   *)
(* from the same tangent vector and receive the same flow calls.           *)

GridPoints == {<<i * (Unit \div Grid), j * (Unit \div Grid)>> : i, j \in 0 .. Grid}

AllDirections == {<<1, 1>>, <<1, 2>>, <<2, 1>>, <<-1, 2>>, <<-2, -1>>}

\* the directions parallel to no edge of the surface
Directions(S) ==
    {d \in AllDirections :
        \A p \in Labels(S) : \A i \in Edges(polygon(S, p)) :
            wedge_product(edge(polygon(S, p), i), d) # 0}

\* a vector based at a vertex points into the polygon
PointsInward(P, pt, d) ==
    \A i \in Edges(P) :
        (vertex(P, i) = pt \/ vertex(P, i + 1) = pt)
            => wedge_product(edge(P, i), d) > 0

\* the tangent vectors a client obtains from surface.tangent_vector
InitialTangentVectors(S) ==
    {tangent_vector(S, x[1], x[2], x[3]) :
        x \in {y \in Labels(S) \X GridPoints \X Directions(S) :
            /\ contains_point(polygon(S, y[1]), y[2])
            /\ (VerticesAt(polygon(S, y[1]), y[2]) # {}
                   => PointsInward(polygon(S, y[1]), y[2], y[3]))}}

\* the two objects as the values the methods above work on
SLT == [segments |-> _segments, forward |-> _forward, backward |-> _backward,
        steps |-> 0]
SLTT == [points |-> _points, vector |-> tv0.vector, iets |-> _iets,
         calls |-> flow_map_calls, raised |-> raised]

\* the two objects as they were when the last flow call was made
OldSLT == [segments |-> old.segments, forward |-> old.forward,
           backward |-> old.backward, steps |-> 0]
OldSLTT == [points |-> old.points, vector |-> tv0.vector, iets |-> old.iets,
            calls |-> old.calls, raised |-> FALSE]

Snapshot(T, L) ==
    [segments |-> T.segments, forward |-> T.forward, backward |-> T.backward,
     points |-> L.points, iets |-> L.iets, calls |-> L.calls]

IdleSeg == seg = NoSegment /\ res = NoCall /\ op = "none"
IdleLin == u = <<QZero, QZero>> /\ v = <<QZero, QZero>> /\ coeff = Pending
IdleCoding == coding_alphabet = <<>> /\ ans = <<>>

\* no call of _get_iet, _next or _previous was made by a client
NoTriple == <<-1, -1, 0>>
IdleIet == iet_out = <<>> /\ triple = NoTriple /\ image = NoTriple /\ iet_op = "none"

\* ConeSurface.angles is not running
NoCorner == [p |-> -1, e |-> -1, pp |-> -1, ee |-> -1, angle |-> 0]
IdleCone ==
    /\ angles_pc = "none"
    /\ edges = {}
    /\ angles = <<>>
    /\ corner = NoCorner
    /\ summed = <<>>

\* no SimilaritySplitPolygonsMapping was constructed
NoMapping == [kind |-> "none", msg |-> ""]
NoVector == [kind |-> "none", val |-> NoTangentVector, msg |-> ""]
IdleMap ==
    /\ mapping = NoMapping
    /\ tangent = NoTangentVector
    /\ pushed = NoVector
    /\ pulled = NoVector

InitObjects(T, L) ==
    /\ _segments = T.segments
    /\ _forward = T.forward
    /\ _backward = T.backward
    /\ _points = L.points
    /\ _iets = L.iets
    /\ flow_map_calls = L.calls
    /\ raised = L.raised
    /\ old = Snapshot(T, L)

Init ==
    /\ surf \in Surfaces
    /\ tv0 \in InitialTangentVectors(surf)
    /\ InitObjects(StraightLineTrajectory(surf, tv0),
                   StraightLineTrajectoryTranslation(surf, tv0))
    /\ steps = 0
    /\ IdleCoding
    /\ segments_out = NoList
    /\ IdleSeg
    /\ IdleLin
    /\ IdleIet
    /\ IdleCone
    /\ IdleMap

NextObjects(T, L) ==
    /\ _segments' = T.segments
    /\ _forward' = T.forward
    /\ _backward' = T.backward
    /\ _points' = L.points
    /\ _iets' = L.iets
    /\ flow_map_calls' = L.calls
    /\ raised' = L.raised

\* flow(n) on both trajectories
Flow(n) ==
    /\ NextObjects(flow(surf, SLT, n), Translation_flow(surf, SLTT, n))
    /\ old' = Snapshot(SLT, SLTT)
    /\ steps' = n
    /\ coding_alphabet' = <<>>
    /\ ans' = <<>>
    /\ segments_out' = NoList
    /\ UNCHANGED <<surf, tv0, segVars, linVars, ietVars, coneVars, mapVars>>

\* flow is called on trajectories of fewer than MaxLen segments, once the
\* list returned by coding has been consumed
CanFlow == Len(_segments) < MaxLen /\ Len(_points) < MaxLen /\ ~raised /\ ans = <<>>

FlowForward ==
    /\ CanFlow
    /\ \E n \in 1 .. MaxSteps : Flow(n)

FlowBackward ==
    /\ CanFlow
    /\ \E n \in 1 .. MaxSteps : Flow(-n)

FlowZero ==
    /\ CanFlow
    /\ Flow(0)

Next == FlowForward \/ FlowBackward \/ FlowZero

Spec == Init /\ [][Next]_vars

----------------------------------------------------------------------------
(* The orbit specification: a client calls _next and _previous of an       *)
(* IET-based trajectory on a triple of its choice and on the triples the   *)
(* calls return.                                                           *)

\* the triples (p, e, x) of the domain: e an edge of the polygon p through
\* which the flow in direction d enters, x a position on its interval
TriplesOnEdge(S, d, p, e) ==
    {<<p, e, x>> : x \in 0 .. (length_bot(polygon(S, p), d, e) - 1)}

TripleDomain(S, d) ==
    UNION {UNION {TriplesOnEdge(S, d, p, e) : e \in BotEdges(polygon(S, p), d)} :
              p \in Labels(S)}

InitOrbit ==
    /\ surf \in Surfaces
    /\ tv0 \in InitialTangentVectors(surf)
    /\ InitObjects(StraightLineTrajectory(surf, tv0),
                   StraightLineTrajectoryTranslation(surf, tv0))
    /\ steps = 0
    /\ IdleCoding
    /\ segments_out = NoList
    /\ iet_out = <<>>
    /\ triple \in TripleDomain(surf, tv0.vector)
    /\ image = NoTriple
    /\ iet_op = "none"
    /\ IdleSeg
    /\ IdleLin
    /\ IdleCone
    /\ IdleMap

\* the triple the client hands to the next call: its own, then the returned one
Argument == IF iet_op = "none" THEN triple ELSE image

\* a call of _get_iet(label) made by the running method
LookUp(label) ==
    /\ _iets' = _get_iet(surf, SLTT, label).iets
    /\ flow_map_calls' = _get_iet(surf, SLTT, label).calls
    /\ iet_out' = <<label, ReturnedIet(surf, SLTT, label)>>

\* what a method that only reads the trajectory leaves alone
ReadOnly ==
    UNCHANGED <<surf, tv0, _segments, _forward, _backward, _points, steps, raised, old,
                coding_alphabet, ans, segments_out, segVars, linVars, coneVars, mapVars>>

\* self._next(*t)
Call_next ==
    /\ ~raised
    /\ Argument[2] # -1
    /\ triple' = Argument
    /\ image' = _next(surf, tv0.vector, Argument)
    /\ iet_op' = "next"
    /\ LookUp(Argument[1])
    /\ ReadOnly

\* self._previous(*t)
Call_previous ==
    /\ ~raised
    /\ Argument[2] # -1
    /\ triple' = Argument
    /\ image' = _previous(surf, tv0.vector, Argument)
    /\ iet_op' = "previous"
    /\ LookUp(opposite_edge(surf, Argument[1], Argument[2])[1])
    /\ ReadOnly

NextOrbit == Call_next \/ Call_previous

SpecOrbit == InitOrbit /\ [][NextOrbit]_vars

----------------------------------------------------------------------------
(* The cache specification: the IET-based trajectory receives flow calls   *)
(* and calls of the methods that look a transform up: segment, is_closed,  *)
(* is_forward_separatrix and is_saddle_connection.                         *)

\* segment(i): iet = self._get_iet(lab) for the label of the triple i
CallSegment ==
    /\ ~raised
    /\ \E i \in 0 .. (Len(_points) - 1) : LookUp(_points[i + 1][1])
    /\ UNCHANGED <<triple, image, iet_op>>
    /\ ReadOnly

\* is_closed(), is_forward_separatrix() and is_saddle_connection():
\* self._next(*self._points[-1]) looks the label of the last triple up
CallNextOfLast ==
    /\ ~raised
    /\ LookUp(Last(_points)[1])
    /\ UNCHANGED <<triple, image, iet_op>>
    /\ ReadOnly

NextIet ==
    \/ FlowForward
    \/ FlowBackward
    \/ FlowZero
    \/ CallSegment
    \/ CallNextOfLast

SpecIet == Init /\ [][NextIet]_vars

----------------------------------------------------------------------------
(* The coding specification: the segment-based trajectory receives flow    *)
(* calls and calls of coding.                                              *)

\* the dictionaries handed to coding: one naming every side by its
\* direction, one that leaves out the sides 2 and 3
SidesAlphabet == [x \in (0 .. 3) \X (0 .. 3) |-> IF x[2] \in {0, 2} THEN "a" ELSE "b"]
PartialAlphabet == [x \in (0 .. 3) \X (0 .. 1) |-> IF x[2] = 0 THEN "a" ELSE "b"]
Alphabets == {SidesAlphabet, PartialAlphabet}

\* coding(alphabet) on the segment-based trajectory, alphabet None or a dictionary
CallCoding ==
    /\ ans = <<>>
    /\ \E a \in {<<>>} \cup {<<f>> : f \in Alphabets} :
          /\ coding_alphabet' = a
          /\ ans' = <<coding(surf, SLT, a)>>
    /\ UNCHANGED <<surf, tv0, _segments, _forward, _backward, _points, _iets, steps,
                   raised, old, segments_out, flow_map_calls,
                   segVars, linVars, ietVars, coneVars, mapVars>>

\* the client consumes the list coding returned
ReturnCoding ==
    /\ ans # <<>>
    /\ coding_alphabet' = <<>>
    /\ ans' = <<>>
    /\ UNCHANGED <<surf, tv0, _segments, _forward, _backward, _points, _iets, steps,
                   raised, old, segments_out, flow_map_calls,
                   segVars, linVars, ietVars, coneVars, mapVars>>

NextCoding == FlowForward \/ FlowBackward \/ FlowZero \/ CallCoding \/ ReturnCoding

SpecCoding == Init /\ [][NextCoding]_vars

----------------------------------------------------------------------------
(* The segments specification: the IET-based trajectory receives flow      *)
(* calls and calls of segments.                                            *)

\* segments() on the IET-based trajectory
CallSegments ==
    /\ ~raised
    /\ segments_out' = Translation_segments(surf, SLTT)
    /\ UNCHANGED <<surf, tv0, _segments, _forward, _backward, _points, _iets, steps,
                   raised, old, coding_alphabet, ans, flow_map_calls,
                   segVars, linVars, ietVars, coneVars, mapVars>>

NextSegments == FlowForward \/ FlowBackward \/ FlowZero \/ CallSegments

SpecSegments == Init /\ [][NextSegments]_vars

----------------------------------------------------------------------------
(* Sanity of the integer coordinates: every endpoint of a stored segment   *)
(* is on the boundary of its polygon and inside it.                        *)

OnBoundary(S, t) ==
    /\ contains_point(polygon(S, t.label), t.point)
    /\ position_type(polygon(S, t.label), t.point) # "INTERIOR"

CoordinatesExact ==
    \A i \in 1 .. Len(_segments) :
        /\ OnBoundary(surf, _segments[i].start)
        /\ OnBoundary(surf, _segments[i].end)
        /\ wedge_product(VSub(_segments[i].end.point, _segments[i].start.point),
                         tv0.vector) = 0


----------------------------------------------------------------------------
(* Properties of the two trajectory classes under the same flow calls.     *)

\* the (label, edge) projection of the triples
RECURSIVE Projection(_, _)
Projection(pts, i) ==
    IF i > Len(pts) THEN <<>>
    ELSE <<<<pts[i][1], pts[i][2]>>>> \o Projection(pts, i + 1)

\* the (label, edge or vertex) of the start of each segment
RECURSIVE Starts(_, _, _)
Starts(S, segs, i) ==
    IF i > Len(segs) THEN <<>>
    ELSE <<<<segs[i].start.label,
             StartIndex(polygon(S, segs[i].start.label), segs[i].start.point)>>>>
         \o Starts(S, segs, i + 1)

SameAnswers ==
    /\ is_closed(SLT) = Translation_is_closed(surf, SLTT)
    /\ is_saddle_connection(SLT) = Translation_is_saddle_connection(surf, SLTT)
    /\ combinatorial_length(SLT) = Translation_combinatorial_length(SLTT)

C2_ClosureIdempotence ==
    /\ (is_closed(OldSLT) /\ steps > 0)
          => combinatorial_length(SLT) = combinatorial_length(OldSLT)
    /\ (Translation_is_closed(surf, OldSLTT) /\ steps > 0)
          => Translation_combinatorial_length(SLTT)
               = Translation_combinatorial_length(OldSLTT)

\* flow(n), n > 0, was called on closed trajectories of several segments
C2_Witness ==
    /\ steps > 0
    /\ is_closed(OldSLT)
    /\ Translation_is_closed(surf, OldSLTT)
    /\ Len(old.segments) > 1

\* C3: once is_saddle_connection() is true, flow(n) leaves the stored
\* sequence unchanged for every n, and is_saddle_connection() stays true
C3_SaddleTerminality ==
    /\ is_saddle_connection(OldSLT)
          => (_segments = old.segments /\ is_saddle_connection(SLT))
    /\ Translation_is_saddle_connection(surf, OldSLTT)
          => (_points = old.points /\ Translation_is_saddle_connection(surf, SLTT))

\* flow(n), n < 0, was called on saddle connections of several segments
C3_Witness ==
    /\ steps < 0
    /\ is_saddle_connection(OldSLT)
    /\ Translation_is_saddle_connection(surf, OldSLTT)
    /\ Len(old.segments) > 1

C3_WitnessForward ==
    /\ steps > 0
    /\ is_saddle_connection(OldSLT)
    /\ Translation_is_saddle_connection(surf, OldSLTT)

\* the side being extended by flow(n) hit a singularity or closed up
StoppedSLT(n) ==
    \/ n > 0 /\ (is_forward_separatrix(SLT) \/ is_closed(SLT))
    \/ n < 0 /\ (is_backward_separatrix(SLT) \/ is_closed(SLT))
StoppedSLTT(n) ==
    \/ n > 0 /\ (Translation_is_forward_separatrix(surf, SLTT)
                    \/ Translation_is_closed(surf, SLTT))
    \/ n < 0 /\ (Translation_is_backward_separatrix(SLTT)
                    \/ Translation_is_closed(surf, SLTT))

\* C4: flow(steps) never raises; the length afterwards is at least the
\* length before and at most the length before plus |steps|, and smaller than
\* that only if the side being extended hit a singularity or closed up
C4_FlowCapped ==
    /\ ~raised
    /\ Len(_segments) >= Len(old.segments)
    /\ Len(_segments) <= Len(old.segments) + Abs(steps)
    /\ Len(_segments) < Len(old.segments) + Abs(steps) => StoppedSLT(steps)
    /\ Len(_points) >= Len(old.points)
    /\ Len(_points) <= Len(old.points) + Abs(steps)
    /\ Len(_points) < Len(old.points) + Abs(steps) => StoppedSLTT(steps)

\* a flow call that did fewer steps than asked, and one that did them all
C4_Witness ==
    /\ steps = -MaxSteps
    /\ Len(_segments) = Len(old.segments) + 1
    /\ Len(_points) = Len(old.points) + 1

C4_WitnessFull ==
    /\ steps = MaxSteps
    /\ Len(_segments) = Len(old.segments) + MaxSteps
    /\ Len(_points) = Len(old.points) + MaxSteps


----------------------------------------------------------------------------
(* The segment specification: invert, next and previous are called on a    *)
(* SegmentInPolygon built from a tangent vector, and on the segments they  *)
(* return.                                                                 *)

IdleTraj ==
    /\ _segments = <<>>
    /\ _forward = <<>>
    /\ _backward = <<>>
    /\ _points = <<>>
    /\ _iets = NoIets
    /\ flow_map_calls = <<>>
    /\ steps = 0
    /\ raised = FALSE
    /\ old = [segments |-> <<>>, forward |-> <<>>, backward |-> <<>>,
              points |-> <<>>, iets |-> NoIets, calls |-> <<>>]
    /\ coding_alphabet = <<>>
    /\ ans = <<>>
    /\ segments_out = NoList

InitSeg ==
    /\ surf \in Surfaces
    /\ tv0 \in InitialTangentVectors(surf)
    /\ seg = SegmentInPolygon(surf, tv0)
    /\ res = NoCall
    /\ op = "none"
    /\ IdleTraj
    /\ IdleLin
    /\ IdleIet
    /\ IdleCone
    /\ IdleMap

CallInvert ==
    /\ res' = ReturnSegment(SegmentInPolygon_invert(seg))
    /\ op' = "invert"
    /\ UNCHANGED <<seg, trajVars, linVars, ietVars, coneVars, mapVars>>

CallNext ==
    /\ res' = SegmentInPolygon_next(surf, seg)
    /\ op' = "next"
    /\ UNCHANGED <<seg, trajVars, linVars, ietVars, coneVars, mapVars>>

CallPrevious ==
    /\ res' = SegmentInPolygon_previous(surf, seg)
    /\ op' = "previous"
    /\ UNCHANGED <<seg, trajVars, linVars, ietVars, coneVars, mapVars>>

\* the client goes on with the segment the last call returned
Continue ==
    /\ res.kind = "return"
    /\ seg' = res.val
    /\ res' = NoCall
    /\ op' = "none"
    /\ UNCHANGED <<trajVars, linVars, ietVars, coneVars, mapVars>>

NextSeg == CallInvert \/ CallNext \/ CallPrevious \/ Continue

SpecSeg == InitSeg /\ [][NextSeg]_vars

----------------------------------------------------------------------------
(* The specification of get_linearity_coeff: the function is applied to    *)
(* vectors over the rationals of bounded numerator and denominator.        *)

Scalars == {Norm(n, d) : n \in (-MaxNum) .. MaxNum, d \in 1 .. MaxDen}
Vectors == Scalars \X Scalars
VScale(a, w) == <<QMul(a, w[1]), QMul(a, w[2])>>

InitLin ==
    /\ u \in Vectors
    /\ v \in Vectors \cup {VScale(a, u) : a \in Scalars}
    /\ coeff = Pending
    /\ surf = "torus"
    /\ tv0 = NoTangentVector
    /\ IdleTraj
    /\ IdleSeg
    /\ IdleIet
    /\ IdleCone
    /\ IdleMap

CallGetLinearityCoeff ==
    /\ coeff = Pending
    /\ coeff' = get_linearity_coeff(u, v)
    /\ UNCHANGED <<u, v, trajVars, segVars, ietVars, coneVars, mapVars>>

NextLin == CallGetLinearityCoeff

SpecLin == InitLin /\ [][NextLin]_vars

----------------------------------------------------------------------------
(* Properties of SegmentInPolygon.                                         *)

\* C5: s.invert().invert() == s, and s.invert() has start == s.end() and
\* end == s.start()
C5_Invertibility ==
    op = "invert" =>
        /\ res.kind = "return"
        /\ res.val.start = seg.end
        /\ res.val.end = seg.start
        /\ SegmentInPolygon_invert(res.val) = seg

\* invert was called on a segment built from a tangent vector, and on a
\* segment built from a pair
C5_Witness ==
    /\ op = "invert"
    /\ seg = SegmentInPolygon(surf, tv0)
    /\ seg.start # seg.end

C5_WitnessPair ==
    /\ op = "invert"
    /\ seg = SegmentInPolygon_invert(SegmentInPolygon(surf, tv0))

\* C6: whenever s.next() succeeds, s.next().previous() succeeds and equals s
C6_ContinuationConsistency ==
    (op = "next" /\ res.kind = "return")
        => SegmentInPolygon_previous(surf, res.val) = ReturnSegment(seg)

\* C7: previous() raises exactly when the start is based at a vertex, and
\* otherwise returns the inverse of the segment built from start.invert(),
\* whether or not the end is singular
C7_PreviousGuard ==
    op = "previous" =>
        /\ (res.kind = "raise") <=> start_is_singular(surf, seg)
        /\ (~start_is_singular(surf, seg)) =>
              res = ReturnSegment(SegmentInPolygon_invert(
                        SegmentInPolygon(surf, invert(surf, seg.start))))

\* C8: next() raises the singular-endpoint error iff the end is based at a
\* vertex, otherwise returns the segment built from end.invert(); the
\* segment it is called on is left unchanged
C8_NextGuard ==
    [][op' = "next" =>
        /\ seg' = seg
        /\ (res'.kind = "raise" /\ res'.msg = SingularMsg) <=> end_is_singular(surf, seg)
        /\ (~end_is_singular(surf, seg)) =>
              res' = ReturnSegment(SegmentInPolygon(surf, invert(surf, seg.end)))]_vars

\* next was called and returned a segment of another polygon
C8_Witness ==
    /\ op = "next"
    /\ res.kind = "return"
    /\ res.val.start.label # seg.start.label

C8_WitnessRaise ==
    /\ op = "next"
    /\ res.kind = "raise"

----------------------------------------------------------------------------
(* Properties of get_linearity_coeff.                                      *)

\* C9: for nonzero u and every scalar a, get_linearity_coeff(u, a*u) returns
\* a; and whenever a value r is returned, v = r*u componentwise
C9_LinearityCoeff ==
    coeff.kind # "pending" =>
        /\ \A a \in Scalars :
              (u # <<QZero, QZero>> /\ v = VScale(a, u)) => coeff = Return(a)
        /\ coeff.kind = "return" => v = VScale(coeff.val, u)

\* the coefficient of a vector and a negative non-integral multiple of it
C9_Witness ==
    /\ coeff.kind = "return"
    /\ QLt(coeff.val, QZero)
    /\ coeff.val[2] # 1
    /\ ~QIsZero(u[1])
    /\ ~QIsZero(u[2])

C9_WitnessZero ==
    /\ coeff = Return(QZero)
    /\ QIsZero(u[1])
    /\ ~QIsZero(u[2])

\* C10: get_linearity_coeff(u, v) raises the zero-vector error whenever
\* u = (0, 0), for every v
C10_ZeroVector ==
    (coeff.kind # "pending" /\ u = <<QZero, QZero>>) => coeff = Raise("zero vector")

\* wedge(a, b) != 0 over the field
NotParallel(a, b) == QMul(a[1], b[2]) # QMul(a[2], b[1])

\* C11: for u nonzero and wedge(u, v) != 0, get_linearity_coeff(u, v) raises
\* the not-colinear error and returns no value
C11_NotColinear ==
    (coeff.kind # "pending" /\ u # <<QZero, QZero>> /\ NotParallel(u, v))
        => coeff = Raise("non colinear")

\* the error raised for a vertical u and a v with nonzero first component
C11_Witness ==
    /\ coeff = Raise("non colinear")
    /\ QIsZero(u[1])
    /\ ~QIsZero(u[2])
    /\ ~QIsZero(v[2])

\* the error raised by the test v[1] != a*u[1]
C11_WitnessFirst ==
    /\ coeff = Raise("non colinear")
    /\ ~QIsZero(u[1])
    /\ ~QIsZero(u[2])

----------------------------------------------------------------------------
(* Properties of coding.                                                   *)

\* the list l with the pairs absent from the dictionary removed and the others
\* replaced by their letter
RECURSIVE Translated(_, _, _)
Translated(l, a, i) ==
    IF i > Len(l) THEN <<>>
    ELSE (IF a = <<>> THEN <<l[i]>>
          ELSE IF l[i] \in DOMAIN a[1] THEN <<a[1][l[i]]>>
          ELSE <<>>)
         \o Translated(l, a, i + 1)

\* C12: coding(alphabet) is coding() with the pairs absent from alphabet
\* removed and the others replaced by their letter, in the same order; a call
\* of coding leaves the trajectory unchanged, and a second call returns the
\* same list
C12_CodingAlphabet ==
    [][ans' # <<>> =>
        /\ ans'[1] = Translated(coding(surf, SLT, <<>>), coding_alphabet', 1)
        /\ UNCHANGED <<_segments, _forward, _backward>>
        /\ coding(surf', SLT', coding_alphabet') = ans'[1]]_vars

\* coding was called with a dictionary that drops some crossings and keeps
\* others
C12_Witness ==
    /\ ans # <<>>
    /\ coding_alphabet = <<PartialAlphabet>>
    /\ Len(ans[1]) >= 2
    /\ Len(ans[1]) < Len(coding(surf, SLT, <<>>))

\* the first start of the trajectory lies in the interior of an edge
StartsOnEdge ==
    position_type(polygon(surf, _segments[1].start.label), _segments[1].start.point)
        = "EDGE_INTERIOR"

Block(a, b) ==
    \E k \in 0 .. (Len(b) - Len(a)) : SubSeq(b, k + 1, k + Len(a)) = a

\* the sequence a is a prefix of the sequence b
Prefix(a, b) == Len(a) <= Len(b) /\ SubSeq(b, 1, Len(a)) = a

\* the step is the call flow(-n) that follows the call flow(n), n > 0, and
\* leaves a trajectory that is not closed
RoundTripStep == steps > 0 /\ steps' = -steps /\ ~is_closed(SLT')

----------------------------------------------------------------------------
(* Invariants of the two trajectory classes.                               *)

ListOfSegments ==
    [k \in 1 .. Translation_combinatorial_length(SLTT) |->
        Translation_segment(surf, SLTT, k - 1)]

\* C16: segments() of a StraightLineTrajectoryTranslation returns normally
\* the list [segment(0), ..., segment(combinatorial_length() - 1)], of length
\* combinatorial_length(), in trajectory order
C16_Segments ==
    segments_out # NoList =>
        /\ segments_out = ReturnList(ListOfSegments)
        /\ Len(segments_out.val) = Translation_combinatorial_length(SLTT)

\* segment(i) of the IET-based trajectory is segment i of the segment-based one
SegmentsAgree == ~raised => ListOfSegments = _segments

\* C17: chain invariant of StraightLineTrajectory: each segment but the last
\* has an end that is not based at a vertex, and the segment after it is the
\* segment built from the inverse of that end (what next() returns)
C17_Chain ==
    \A i \in 1 .. (Len(_segments) - 1) :
        /\ ~end_is_singular(surf, _segments[i])
        /\ _segments[i + 1] = SegmentInPolygon(surf, invert(surf, _segments[i].end))

\* a trajectory grown at both ends by interleaved forward and backward flows
C17_Witness ==
    /\ Len(_segments) >= 4
    /\ steps > 0
    /\ Len(_segments) > Len(old.segments)
    /\ old.segments[1] # SegmentInPolygon(surf, tv0)
    /\ Last(old.segments) # SegmentInPolygon(surf, tv0)

\* C18: rail invariant of StraightLineTrajectory: _forward is None iff the
\* end of the last segment is based at a vertex and otherwise is the inverse
\* of that end; _backward is None iff the start of the first segment is based
\* at a vertex and otherwise is the inverse of that start
C18_Rails ==
    /\ (_forward = <<>>) <=> is_based_at_singularity(surf, Last(_segments).end)
    /\ (_forward # <<>>) => _forward[1] = invert(surf, Last(_segments).end)
    /\ (_backward = <<>>) <=> is_based_at_singularity(surf, _segments[1].start)
    /\ (_backward # <<>>) => _backward[1] = invert(surf, _segments[1].start)

\* a trajectory grown at both ends, one rail absent and the other present
C18_Witness ==
    /\ Len(_segments) >= 3
    /\ _segments[1] # SegmentInPolygon(surf, tv0)
    /\ Last(_segments) # SegmentInPolygon(surf, tv0)
    /\ _forward = <<>>
    /\ _backward # <<>>

\* a trajectory grown at both ends with both rails present
C18_WitnessBoth ==
    /\ Len(_segments) >= 3
    /\ _segments[1] # SegmentInPolygon(surf, tv0)
    /\ Last(_segments) # SegmentInPolygon(surf, tv0)
    /\ _forward # <<>>
    /\ _backward # <<>>

\* C19: every stored triple but the first has a nonzero offset: forward
\* flow never appends a triple of offset zero
C19_NonzeroOffsets ==
    \A i \in 2 .. Len(_points) : _points[i][3] # 0

\* a forward flow that appended a triple and then stopped at offset zero
C19_Witness ==
    /\ steps > 0
    /\ Len(_points) > Len(old.points)
    /\ Len(_points) < Len(old.points) + steps
    /\ Translation_is_forward_separatrix(surf, SLTT)

\* a backward flow that prepended a triple of offset zero
C19_WitnessFirst ==
    /\ steps < 0
    /\ Len(_points) > Len(old.points)
    /\ _points[1][3] = 0

\* C20: orbit invariant of StraightLineTrajectoryTranslation: consecutive
\* stored triples satisfy points[i+1] == _next(points[i]) and
\* points[i] == _previous(points[i+1])
C20_Orbit ==
    \A i \in 1 .. (Len(_points) - 1) :
        /\ _points[i + 1] = _next(surf, tv0.vector, _points[i])
        /\ _points[i] = _previous(surf, tv0.vector, _points[i + 1])

\* triples stored at both ends of the first one by interleaved flows
C20_Witness ==
    /\ Len(_points) >= 4
    /\ steps > 0
    /\ Len(_points) > Len(old.points)
    /\ old.points[1] # StraightLineTrajectoryTranslation(surf, tv0).points[1]
    /\ Last(old.points) # StraightLineTrajectoryTranslation(surf, tv0).points[1]

\* C21: no wrap-around: the stored triples of a
\* StraightLineTrajectoryTranslation are pairwise distinct after construction
\* and any interleaving of forward and backward flow calls
C21_NoWrapAround ==
    \A i, j \in 1 .. Len(_points) : i # j => _points[i] # _points[j]

\* a forward flow stopped by closure on a trajectory whose first triple was
\* stored by an earlier backward flow
C21_Witness ==
    /\ steps > 0
    /\ Len(_points) >= 3
    /\ Len(_points) < Len(old.points) + steps
    /\ Translation_is_closed(surf, SLTT)
    /\ _points[1] # StraightLineTrajectoryTranslation(surf, tv0).points[1]

\* the triple t is the result of a step that did not raise and has offset zero
LandsAtZero(t) == t[2] # -1 /\ t[3] = 0

\* C22 as stated: is_forward_separatrix() is true iff one more _next step
\* from the last triple lands at offset zero, and is_backward_separatrix() is
\* true iff one more _previous step from the first triple lands at offset zero
C22_OneMoreStep ==
    ~raised =>
        /\ Translation_is_forward_separatrix(surf, SLTT)
              <=> LandsAtZero(_next(surf, tv0.vector, Last(_points)))
        /\ Translation_is_backward_separatrix(SLTT)
              <=> LandsAtZero(_previous(surf, tv0.vector, _points[1]))

\* C22 amended: is_forward_separatrix() is true iff one more _next step from
\* the last triple lands at offset zero, that is iff the last segment ends at
\* a vertex; is_backward_separatrix() is true iff the first stored triple
\* itself has offset zero, that is iff the first segment starts at a vertex
C22_Separatrix ==
    ~raised =>
        /\ Translation_is_forward_separatrix(surf, SLTT)
              <=> LandsAtZero(_next(surf, tv0.vector, Last(_points)))
        /\ Translation_is_forward_separatrix(surf, SLTT)
              <=> end_is_singular(surf, Translation_segment(surf, SLTT, Len(_points) - 1))
        /\ Translation_is_backward_separatrix(SLTT) <=> _points[1][3] = 0
        /\ Translation_is_backward_separatrix(SLTT)
              <=> start_is_singular(surf, Translation_segment(surf, SLTT, 0))

\* a trajectory of several triples that is a backward separatrix and not a
\* forward one, its first triple stored by a backward flow
C22_Witness ==
    /\ steps < 0
    /\ Len(_points) > Len(old.points)
    /\ Len(_points) >= 3
    /\ Translation_is_backward_separatrix(SLTT)
    /\ ~Translation_is_forward_separatrix(surf, SLTT)

\* a trajectory that is not a backward separatrix although one more
\* _previous step from its first triple lands at offset zero
C22_WitnessBefore ==
    /\ ~raised
    /\ ~Translation_is_backward_separatrix(SLTT)
    /\ LandsAtZero(_previous(surf, tv0.vector, _points[1]))

----------------------------------------------------------------------------
(* Properties of the interval exchange of a trajectory.                    *)

\* C23: _previous is the exact inverse of _next: for every triple t of the
\* domain _previous(*_next(*t)) == t and _next(*_previous(*t)) == t, neither
\* call raising
C23_Inverse ==
    /\ iet_op = "next" =>
          /\ image[2] # -1
          /\ _previous(surf, tv0.vector, image) = triple
    /\ iet_op = "previous" =>
          /\ image[2] # -1
          /\ _next(surf, tv0.vector, image) = triple

\* _next carried a triple into another polygon, through another edge
C23_Witness ==
    /\ iet_op = "next"
    /\ image[1] # triple[1]
    /\ image[2] # triple[2]
    /\ image[3] # triple[3]

\* _previous was applied to a triple of offset zero
C23_WitnessZero ==
    /\ iet_op = "previous"
    /\ triple[3] = 0
    /\ image[3] # 0

----------------------------------------------------------------------------
(* Frame of flow.                                                          *)

\* the sequence a is a suffix of the sequence b
Suffix(a, b) == Len(a) <= Len(b) /\ SubSeq(b, Len(b) - Len(a) + 1, Len(b)) = a

\* C24: frame of flow, for both trajectory classes: flow(n) with n > 0 only
\* appends at the tail, flow(n) with n < 0 only prepends at the head, flow(0)
\* changes nothing, and no flow call changes the surface
C24_FlowFrame ==
    [][/\ surf' = surf
       /\ steps' > 0 => Prefix(_segments, _segments') /\ Prefix(_points, _points')
       /\ steps' < 0 => Suffix(_segments, _segments') /\ Suffix(_points, _points')
       /\ steps' = 0 =>
             UNCHANGED <<_segments, _forward, _backward, _points, _iets, flow_map_calls>>]_vars

\* a backward flow that prepended two segments and two triples to a
\* trajectory of several segments
C24_Witness ==
    /\ steps < 0
    /\ Len(old.segments) >= 2
    /\ Len(_segments) = Len(old.segments) + 2
    /\ Len(_points) = Len(old.points) + 2
    /\ Suffix(old.segments, _segments)
    /\ Suffix(old.points, _points)

\* a forward flow that appended to a trajectory of several segments
C24_WitnessForward ==
    /\ steps > 0
    /\ Len(old.segments) >= 2
    /\ Len(_segments) > Len(old.segments)
    /\ Len(_points) > Len(old.points)
    /\ Prefix(old.segments, _segments)
    /\ Prefix(old.points, _points)

----------------------------------------------------------------------------
(* The cache of interval exchange transformations.                         *)

\* the polygons flow_map was called on
CalledPolygons == {flow_map_calls[i][1] : i \in 1 .. Len(flow_map_calls)}

\* the cache in a state: one call of flow_map per cached polygon, each with
\* the direction of the trajectory; the transform a method got for a label is
\* the cached transform of the polygon of that label
CacheConsistent ==
    /\ \A i, j \in 1 .. Len(flow_map_calls) :
          i # j => flow_map_calls[i][1] # flow_map_calls[j][1]
    /\ \A i \in 1 .. Len(flow_map_calls) : flow_map_calls[i][2] = tv0.vector
    /\ DOMAIN _iets = CalledPolygons
    /\ \A K \in DOMAIN _iets : _iets[K] = flow_map(K, tv0.vector)
    /\ iet_out # <<>> =>
          /\ polygon(surf, iet_out[1]) \in DOMAIN _iets
          /\ iet_out[2] = _iets[polygon(surf, iet_out[1])]

\* the cache over a step: no entry is evicted or replaced, no call of
\* flow_map is forgotten
CacheKept ==
    /\ \A K \in DOMAIN _iets : K \in DOMAIN _iets' /\ _iets'[K] = _iets[K]
    /\ Prefix(flow_map_calls, flow_map_calls')

\* C25: IET cache of StraightLineTrajectoryTranslation: over any sequence of
\* operations flow_map is called at most once per distinct polygon, always
\* with the direction of the trajectory; _get_iet(label) returns the same
\* transform on every call for labels whose polygons are equal; entries are
\* never evicted or replaced
C25_IetCache == []CacheConsistent /\ [][CacheKept]_vars

\* a method got for one label the transform cached for another label of an
\* equal polygon, after flows that crossed into other polygons
C25_Witness ==
    /\ iet_out # <<>>
    /\ Len(_points) >= 3
    /\ iet_out[1] # StraightLineTrajectoryTranslation(surf, tv0).points[1][1]
    /\ polygon(surf, iet_out[1])
          = polygon(surf, StraightLineTrajectoryTranslation(surf, tv0).points[1][1])
    /\ Len(flow_map_calls) = 1

\* a surface of two different polygons: both cached, each by one call
C25_WitnessTwo ==
    /\ iet_out # <<>>
    /\ Len(flow_map_calls) = 2
    /\ steps < 0

----------------------------------------------------------------------------
(* ConeSurface.angles of flatsurf/geometry/cone_surface.py: the cone       *)
(* angles of a surface, one loop iteration per step.  Angles are counted   *)
(* in eighths of a turn.                                                   *)

\* self.edge_iterator(): the (polygon, edge) pairs of the surface
edge_iterator(S) ==
    UNION {{<<p, e>> : e \in Edges(polygon(S, p))} : p \in Labels(S)}

\* polygon.angle(e): the angle of the corner at vertex e, between the edge e
\* and the edge before it
angle(P, e) ==
    IF dot_product(edge(P, e), VNeg(edge(P, e - 1))) = 0 THEN 2
    ELSE IF dot_product(edge(P, e), VNeg(edge(P, e - 1))) > 0 THEN 1
    ELSE 3

\* self.opposite_edge(p, (e-1) % self.polygon(p).num_edges())
AroundVertex(S, p, e) == opposite_edge(S, p, (e - 1) % num_edges(polygon(S, p)))

\* edges.remove((pp, ee)) that removes nothing
EdgesAfterRemove_Kept(es, x) == es

\* edges.remove((pp, ee)), the pair being in the set
EdgesAfterRemove(es, x) == es \ {x}

ConeSurfaces == FiniteSurfaces \cup InfiniteSurfaces

InitCone ==
    /\ surf \in ConeSurfaces
    /\ tv0 = NoTangentVector
    /\ angles_pc = "call"
    /\ edges = {}
    /\ angles = <<>>
    /\ corner = NoCorner
    /\ summed = <<>>
    /\ IdleTraj
    /\ IdleSeg
    /\ IdleLin
    /\ IdleIet
    /\ IdleMap

ConeFrame == UNCHANGED <<trajVars, segVars, linVars, ietVars, mapVars>>

\* lines 18-23: the test of is_finite and the set of all edges
AnglesEnter ==
    /\ angles_pc = "call"
    /\ IF ~is_finite(surf)
       THEN angles_pc' = "NotImplementedError" /\ UNCHANGED edges
       ELSE angles_pc' = "outer" /\ edges' = edge_iterator(surf)
    /\ UNCHANGED <<angles, corner, summed>>
    /\ ConeFrame

\* lines 24-27: edges.pop() gives any pair of the set
AnglesPop ==
    /\ angles_pc = "outer"
    /\ edges # {}
    /\ \E x \in edges :
          /\ edges' = edges \ {x}
          /\ corner' = [p |-> x[1], e |-> x[2],
                        pp |-> AroundVertex(surf, x[1], x[2])[1],
                        ee |-> AroundVertex(surf, x[1], x[2])[2],
                        angle |-> angle(polygon(surf, x[1]), x[2])]
          /\ summed' = Append(summed, x)
    /\ angles_pc' = "inner"
    /\ UNCHANGED angles
    /\ ConeFrame

\* lines 28-31: one iteration of the inner loop; remove raises KeyError on a
\* pair that is not in the set
AnglesWalk ==
    /\ angles_pc = "inner"
    /\ corner.pp # corner.p \/ corner.ee # corner.e
    /\ IF <<corner.pp, corner.ee>> \notin edges
       THEN angles_pc' = "KeyError" /\ UNCHANGED <<edges, corner, summed>>
       ELSE /\ angles_pc' = "inner"
            /\ edges' = EdgesAfterRemove(edges, <<corner.pp, corner.ee>>)
            /\ corner' = [corner EXCEPT
                             !.angle = @ + angle(polygon(surf, corner.pp), corner.ee),
                             !.pp = AroundVertex(surf, corner.pp, corner.ee)[1],
                             !.ee = AroundVertex(surf, corner.pp, corner.ee)[2]]
            /\ summed' = Append(summed, <<corner.pp, corner.ee>>)
    /\ UNCHANGED angles
    /\ ConeFrame

\* line 32: the inner loop is over, angles.append(angle)
AnglesAppend ==
    /\ angles_pc = "inner"
    /\ corner.pp = corner.p /\ corner.ee = corner.e
    /\ angles' = Append(angles, corner.angle)
    /\ angles_pc' = "outer"
    /\ UNCHANGED <<edges, corner, summed>>
    /\ ConeFrame

\* line 33: the outer loop is over, return angles
AnglesReturn ==
    /\ angles_pc = "outer"
    /\ edges = {}
    /\ angles_pc' = "return"
    /\ UNCHANGED <<edges, angles, corner, summed>>
    /\ ConeFrame

NextCone == AnglesEnter \/ AnglesPop \/ AnglesWalk \/ AnglesAppend \/ AnglesReturn

\* the interpreter goes on running the method
SpecCone == InitCone /\ [][NextCone]_vars /\ WF_vars(NextCone)

----------------------------------------------------------------------------
(* Properties of ConeSurface.angles.                                       *)

\* the pairs met from x by k turns around the vertex
RECURSIVE Turned(_, _, _)
Turned(S, x, k) ==
    IF k = 0 THEN {x}
    ELSE {x} \cup Turned(S, AroundVertex(S, x[1], x[2]), k - 1)

\* the cycles of the map (p, e) -> opposite_edge(p, (e-1) mod num_edges(p))
Cycles(S) ==
    {Turned(S, x, Cardinality(edge_iterator(S))) : x \in edge_iterator(S)}

RECURSIVE SumOfAngles(_, _)
SumOfAngles(S, c) ==
    IF c = {} THEN 0
    ELSE SumOfAngles(S, c \ {CHOOSE x \in c : TRUE})
           + angle(polygon(S, (CHOOSE x \in c : TRUE)[1]), (CHOOSE x \in c : TRUE)[2])

\* the state of angles() is safe: remove did not fail, no pair was added to
\* two sums, each returned angle is the sum over a cycle; at the return every
\* pair was added to a sum and there is one angle per cycle; on an infinite
\* surface nothing is computed
AnglesSafe ==
    /\ is_finite(surf) =>
          /\ angles_pc \notin {"KeyError", "NotImplementedError"}
          /\ \A i, j \in 1 .. Len(summed) : i # j => summed[i] # summed[j]
          /\ \A k \in 1 .. Len(angles) :
                \E c \in Cycles(surf) : angles[k] = SumOfAngles(surf, c)
          /\ angles_pc = "return" =>
                /\ {summed[i] : i \in 1 .. Len(summed)} = edge_iterator(surf)
                /\ Len(angles) = Cardinality(Cycles(surf))
    /\ ~is_finite(surf) =>
          /\ angles_pc \in {"call", "NotImplementedError"}
          /\ edges = {} /\ angles = <<>> /\ summed = <<>>

\* angles() has returned or raised
AnglesOver == angles_pc \in {"return", "NotImplementedError", "KeyError"}

\* C26: ConeSurface.angles on a finite surface whose opposite_edge is an
\* involution: the nested loops terminate, every (polygon, edge) pair adds
\* its corner angle to exactly one returned sum, edges.remove never fails,
\* and there is one returned angle per cycle of
\* (p, e) -> opposite_edge(p, (e-1) mod num_edges(p)); on an infinite surface
\* it raises NotImplementedError without computing anything
C26_Angles == []AnglesSafe /\ <>AnglesOver

\* angles() returned two angles on a surface with two vertices
C26_Witness ==
    /\ angles_pc = "return"
    /\ Len(angles) = 2
    /\ Len(summed) > 2

\* angles() raised on the infinite surface
C26_WitnessInfinite ==
    /\ ~is_finite(surf)
    /\ angles_pc = "NotImplementedError"

----------------------------------------------------------------------------
(* SimilaritySplitPolygonsMapping of flatsurf/geometry/mappings.py: the    *)
(* polygon p of a surface is cut along the diagonal from vertex v1 to      *)
(* vertex v2.  The mapping is the record of the fields of the object,      *)
(* with the arguments of the constructor; its codomain is the record of    *)
(* polygon_map and gluings handed to SimilaritySurface_polygons_and_gluings. *)

RaiseMapping(a, m) == [kind |-> "raise", msg |-> m, args |-> a]

\* Polygons(ring)(edges): the polygon of the given edges, its vertex 0 at the origin
RECURSIVE PartialSum(_, _)
PartialSum(es, n) == IF n = 0 THEN <<0, 0>> ELSE VAdd(PartialSum(es, n - 1), es[n])

PolygonFromEdges(es) == [k \in 1 .. Len(es) |-> PartialSum(es, k - 1)]

\* lines 208-211: the diagonal from v1 to v2, then the edges v2 .. v1+ne-1
newvertices1(P, v1, v2) ==
    <<VSub(vertex(P, v2), vertex(P, v1))>>
        \o [k \in 1 .. (v1 + num_edges(P) - v2) |-> edge(P, v2 + k - 1)]

\* lines 213-216: the diagonal from v2 to v1, then the edges v1 .. v2-1
newvertices2(P, v1, v2) ==
    <<VSub(vertex(P, v1), vertex(P, v2))>> \o [k \in 1 .. (v2 - v1) |-> edge(P, v1 + k - 1)]

\* lines 229-232: the first integer from len(polygon_map) on that is not a label
RECURSIVE FreshLabel(_, _)
FreshLabel(labels, n) == IF n \in labels THEN FreshLabel(labels, n + 1) ELSE n

\* lines 221-233: polygon_map
polygon_map(S, p, v1, v2, new_label) ==
    [l \in Labels(S) \cup {new_label} |->
        IF l = p THEN PolygonFromEdges(newvertices1(polygon(S, p), v1, v2))
        ELSE IF l = new_label THEN PolygonFromEdges(newvertices2(polygon(S, p), v1, v2))
        ELSE polygon(S, l)]

\* old_to_new_labels whose second branch forgets the cut edge
old_to_new_labels_Shifted(M, i) ==
    IF i < M._v1 THEN <<M._p, i + M.ne - M._v2 + 1>>
    ELSE IF i < M._v2 THEN <<M._new_label, i - M._v1>>
    ELSE <<M._p, i - M._v2 + 1>>

\* lines 235-242: old_to_new_labels[i]
old_to_new_labels(M, i) ==
    IF i < M._v1 THEN <<M._p, i + M.ne - M._v2 + 1>>
    ELSE IF i < M._v2 THEN <<M._new_label, i - M._v1 + 1>>
    ELSE <<M._p, i - M._v2 + 1>>

\* lines 243-245: new_to_old_labels[pair], -1 for KeyError
new_to_old_labels(M, pair) ==
    IF \E i \in 0 .. (M.ne - 1) : old_to_new_labels(M, i) = pair
    THEN CHOOSE i \in 0 .. (M.ne - 1) : old_to_new_labels(M, i) = pair
    ELSE -1

\* lines 268-273: the edge glued to the edge (l2, e2) of the domain, in the
\* labels of the codomain
GluedInCodomain(M, o) ==
    IF o[1] = M._p THEN old_to_new_labels(M, o[2]) ELSE o

\* lines 256-274: the second component of the gluing of the edge (l1, e1)
\* that is not a cut edge; <<-1, -1>> for KeyError
GluingFrom(M, l1, e1) ==
    IF l1 = M._p \/ l1 = M._new_label
    THEN (IF new_to_old_labels(M, <<l1, e1>>) = -1
          THEN <<-1, -1>>
          ELSE GluedInCodomain(M,
                  opposite_edge(M.s, M._p, new_to_old_labels(M, <<l1, e1>>))))
    ELSE GluedInCodomain(M, opposite_edge(M.s, l1, e1))

\* lines 250-274: the gluing appended for the edge (l1, e1)
Gluing(M, l1, e1) ==
    IF l1 = M._p /\ e1 = 0 THEN <<<<M._p, 0>>, <<M._new_label, 0>>>>
    ELSE IF l1 = M._new_label /\ e1 = 0 THEN <<<<M._new_label, 0>>, <<M._p, 0>>>>
    ELSE <<<<l1, e1>>, GluingFrom(M, l1, e1)>>

\* a set of labels in the order of iteration
RECURSIVE InOrder(_)
InOrder(ls) ==
    IF ls = {} THEN <<>>
    ELSE <<CHOOSE m \in ls : \A l \in ls : m <= l>>
            \o InOrder(ls \ {CHOOSE m \in ls : \A l \in ls : m <= l})

\* lines 247-274: the list gluings, the polygons taken in the order ls
RECURSIVE GluingsOver(_, _)
GluingsOver(M, ls) ==
    IF ls = <<>> THEN <<>>
    ELSE [k \in 1 .. num_edges(M.polygon_map[Head(ls)]) |-> Gluing(M, Head(ls), k - 1)]
            \o GluingsOver(M, Tail(ls))

\* lines 278-286: the object, once gluings is built
WithGluings(M, g) ==
    IF \E k \in 1 .. Len(g) : g[k][2] = <<-1, -1>>
    THEN RaiseMapping(M.args, "KeyError")
    ELSE [M EXCEPT !.gluings = g]

\* lines 218-286, the arguments in order and s finite
SplitAlong(S, p, v1, v2, new_label, a) ==
    WithGluings(
        [kind |-> "mapping", msg |-> "", args |-> a, s |-> S, ne |-> num_edges(polygon(S, p)),
         _p |-> p, _v1 |-> v1, _v2 |-> v2, _new_label |-> new_label,
         _tp |-> VNeg(vertex(polygon(S, p), v1)),
         _tnew_label |-> VNeg(vertex(polygon(S, p), v2)),
         polygon_map |-> polygon_map(S, p, v1, v2, new_label),
         gluings |-> <<>>],
        GluingsOver(
            [s |-> S, ne |-> num_edges(polygon(S, p)), _p |-> p, _v1 |-> v1, _v2 |-> v2,
             _new_label |-> new_label,
             polygon_map |-> polygon_map(S, p, v1, v2, new_label)],
            InOrder(Labels(S) \cup {new_label})))

\* SimilaritySplitPolygonsMapping.__init__(s, p, v1, v2)
SimilaritySplitPolygonsMapping(S, p, v1, v2) ==
    IF v1 < 0 \/ v2 < 0 \/ v1 >= num_edges(polygon(S, p)) \/ v2 >= num_edges(polygon(S, p))
    THEN RaiseMapping(<<p, v1, v2>>, "ValueError: Provided vertices out of bounds.")
    ELSE IF Abs(v1 - v2) <= 1 \/ Abs(v1 - v2) >= num_edges(polygon(S, p)) - 1
    THEN RaiseMapping(<<p, v1, v2>>, "ValueError: Provided diagonal is not a diagonal.")
    ELSE IF ~is_finite(S)
    THEN RaiseMapping(<<p, v1, v2>>, "NotImplementedError")
    ELSE IF v2 < v1
    THEN SplitAlong(S, p, v2, v1, FreshLabel(Labels(S), Cardinality(Labels(S))), <<p, v1, v2>>)
    ELSE SplitAlong(S, p, v1, v2, FreshLabel(Labels(S), Cardinality(Labels(S))), <<p, v1, v2>>)

\* self.codomain().opposite_edge(l, e): the edge paired with (l, e) in gluings
codomain_opposite_edge(M, l, e) ==
    M.gluings[CHOOSE k \in 1 .. Len(M.gluings) : M.gluings[k][1] = <<l, e>>][2]

\* the tangent vector at the same place seen from the polygon of the codomain
\* glued to edge e
CodomainTransportAcross(M, l, e, o, pt, vec) ==
    TangentVector(o[1],
                  VAdd(pt, VSub(vertex(M.polygon_map[o[1]], o[2] + 1),
                                vertex(M.polygon_map[l], e))),
                  vec)

\* self.codomain().tangent_vector(label, point, vector)
codomain_tangent_vector(M, l, pt, vec) ==
    IF VerticesAt(M.polygon_map[l], pt) = {}
       /\ \E e \in Edges(M.polygon_map[l]) :
            /\ wedge_product(edge(M.polygon_map[l], e),
                             VSub(pt, vertex(M.polygon_map[l], e))) = 0
            /\ wedge_product(edge(M.polygon_map[l], e), vec) < 0
    THEN CodomainTransportAcross(M, l, get_edge(M.polygon_map[l], pt),
             codomain_opposite_edge(M, l, get_edge(M.polygon_map[l], pt)), pt, vec)
    ELSE TangentVector(l, pt, vec)

\* lines 296-328: the side of the diagonal the vector is on, wp the wedge
\* product of the diagonal with point - vertex1 and ww with the vector
PushAcrossCut(M, t, wp, ww) ==
    IF wp > 0 \/ (wp = 0 /\ ww > 0)
    THEN codomain_tangent_vector(M, M._p, VAdd(t.point, M._tp), t.vector)
    ELSE codomain_tangent_vector(M, M._new_label, VAdd(t.point, M._tnew_label), t.vector)

\* the diagonal vertex2 - vertex1 of lines 293-296
Diagonal(M) ==
    VSub(vertex(polygon(M.s, M._p), M._v2), vertex(polygon(M.s, M._p), M._v1))

push_vector_forward(M, t) ==
    IF t.label = M._p
    THEN PushAcrossCut(M, t,
            wedge_product(Diagonal(M), VSub(t.point, vertex(polygon(M.s, M._p), M._v1))),
            wedge_product(Diagonal(M), t.vector))
    ELSE codomain_tangent_vector(M, t.label, t.point, t.vector)

\* lines 338-359: every branch builds the vector in the polygon self._p
pull_vector_back(M, t) ==
    IF t.label = M._p
    THEN tangent_vector(M.s, M._p, VSub(t.point, M._tp), t.vector)
    ELSE IF t.label = M._new_label
    THEN tangent_vector(M.s, M._p, VSub(t.point, M._tnew_label), t.vector)
    ELSE tangent_vector(M.s, M._p, t.point, t.vector)

ReturnVector(t) == [kind |-> "return", val |-> t, msg |-> ""]

----------------------------------------------------------------------------
(* The mapping specification: a SimilaritySplitPolygonsMapping is          *)
(* constructed on a surface, a tangent vector of the domain is pushed      *)
(* forward and the result is pulled back.                                  *)

SplitSurfaces == FiniteSurfaces \cup InfiniteSurfaces

InitSplit ==
    /\ surf \in SplitSurfaces
    /\ tv0 = NoTangentVector
    /\ IdleMap
    /\ IdleTraj
    /\ IdleSeg
    /\ IdleLin
    /\ IdleIet
    /\ IdleCone

SplitFrame == UNCHANGED <<trajVars, segVars, linVars, ietVars, coneVars>>

\* SimilaritySplitPolygonsMapping(s, p, v1, v2), v1 and v2 any integers near
\* the range of the vertices
Construct ==
    /\ mapping = NoMapping
    /\ \E p \in Labels(surf) :
          \E v1, v2 \in (-1) .. num_edges(polygon(surf, p)) :
              mapping' = SimilaritySplitPolygonsMapping(surf, p, v1, v2)
    /\ UNCHANGED <<tangent, pushed, pulled>>
    /\ SplitFrame

\* m.push_vector_forward(v) for a tangent vector v of the domain
PushForward ==
    /\ mapping.kind = "mapping"
    /\ pushed = NoVector
    /\ \E t \in InitialTangentVectors(surf) :
          /\ tangent' = t
          /\ pushed' = ReturnVector(push_vector_forward(mapping, t))
    /\ UNCHANGED <<mapping, pulled>>
    /\ SplitFrame

\* m.pull_vector_back(w) for the vector w that push_vector_forward returned
PullBack ==
    /\ pushed.kind = "return"
    /\ pulled = NoVector
    /\ pulled' = ReturnVector(pull_vector_back(mapping, pushed.val))
    /\ UNCHANGED <<mapping, tangent, pushed>>
    /\ SplitFrame

NextSplit == Construct \/ PushForward \/ PullBack

SpecSplit == InitSplit /\ [][NextSplit]_vars

----------------------------------------------------------------------------
(* Properties of SimilaritySplitPolygonsMapping.                           *)

\* C27: round trip: for every tangent vector v of the domain, in the split
\* polygon or in any other polygon, pull_vector_back(push_vector_forward(v))
\* has the polygon label, the point and the vector of v
C27_RoundTrip ==
    pulled.kind = "return" =>
        /\ pulled.val.label = tangent.label
        /\ pulled.val.point = tangent.point
        /\ pulled.val.vector = tangent.vector

\* the round trip of the vectors of the split polygon
RoundTripInSplitPolygon ==
    (pulled.kind = "return" /\ tangent.label = mapping._p) => pulled.val = tangent

\* the round trip of the other vectors: all but the label
RoundTripElsewhere ==
    (pulled.kind = "return" /\ tangent.label # mapping._p) =>
        /\ pulled.val.label = mapping._p
        /\ pulled.val.point = tangent.point
        /\ pulled.val.vector = tangent.vector

\* a vector based on the cut of the hexagon was pushed into the new polygon
PushedToNewPolygon ==
    /\ pushed.kind = "return"
    /\ pushed.val.label = mapping._new_label
    /\ wedge_product(Diagonal(mapping),
                     VSub(tangent.point, vertex(polygon(surf, mapping._p), mapping._v1))) = 0
    /\ mapping.ne = 6

\* the arguments p, v1, v2 name no diagonal of the polygon p: a vertex is
\* out of range, or the two are equal or cyclically adjacent
NoDiagonal(S, a) ==
    \/ a[2] \notin 0 .. (num_edges(polygon(S, a[1])) - 1)
    \/ a[3] \notin 0 .. (num_edges(polygon(S, a[1])) - 1)
    \/ (a[2] - a[3]) % num_edges(polygon(S, a[1]))
          \in {0, 1, num_edges(polygon(S, a[1])) - 1}

\* the edges of the polygons of the codomain
CodomainEdges(M) ==
    UNION {{<<l, e>> : e \in Edges(M.polygon_map[l])} : l \in DOMAIN M.polygon_map}

\* the gluing list of the codomain pairs every edge exactly once as a first
\* component, with an edge of the codomain, and is symmetric
GluingsPairUp(M) ==
    /\ Len(M.gluings) = Cardinality(CodomainEdges(M))
    /\ \A x \in CodomainEdges(M) : \E k \in 1 .. Len(M.gluings) : M.gluings[k][1] = x
    /\ \A k \in 1 .. Len(M.gluings) :
          /\ M.gluings[k][2] \in CodomainEdges(M)
          /\ \E j \in 1 .. Len(M.gluings) :
                M.gluings[j] = <<M.gluings[k][2], M.gluings[k][1]>>

\* the two cut edges are glued to each other
CutGlued(M) ==
    /\ \E k \in 1 .. Len(M.gluings) : M.gluings[k] = <<<<M._p, 0>>, <<M._new_label, 0>>>>
    /\ \E k \in 1 .. Len(M.gluings) : M.gluings[k] = <<<<M._new_label, 0>>, <<M._p, 0>>>>

C28_WitnessOrigami ==
    /\ mapping.kind = "mapping"
    /\ surf = "origami"
    /\ mapping._new_label = 4

\* the vertices 0 and ne-1 are adjacent: ValueError
C28_WitnessRaise ==
    /\ mapping.kind = "raise"
    /\ mapping.args[2] = 0
    /\ mapping.args[3] = num_edges(polygon(surf, mapping.args[1])) - 1


====
